---- MODULE Spec2Model ----
(***************************************************************************)
(* Kernel operations of engines/sci/engine/kscripts.cpp: the resource      *)
(* calls (kLoad, kUnLoad, kLock, kResCheck) over the resource manager, and *)
(* the object/script calls (kClone, kDisposeClone, kScriptID,              *)
(* kDisposeScript, kIsObject, kRespondsTo) over the segment manager.       *)
(*                                                                         *)
(* A register (reg_t) is a pair <<segment, offset>>.  A resource id is a   *)
(* triple <<type, number, tuple>>, tuple = <<noun, verb, cond, seq>>.      *)
(***************************************************************************)
EXTENDS Integers, Sequences, FiniteSets, TLC

VARIABLES
    cfg,        \* engine configuration: SCI version, game id, platform
    lockers,    \* ResourceManager: lock count of every resource of the volume
    cached,     \* ResourceManager: resources currently held in memory
    audioLocks, \* Audio32: resource ids locked through Audio32::lockResource
    hunksSeg,   \* SegManager: segment id of the hunk table (0: not allocated)
    hunks,      \* SegManager: allocated entries of the hunk table
    scripts,    \* SegManager: per script number, its segment, lockers, deleted mark
    clonesSeg,  \* SegManager: segment id of the clone table (0: not allocated)
    clones,     \* SegManager: the entries of the clone table, in slot order
    halted,     \* error() was called: the engine has stopped
    h           \* the last kernel call: its arguments, its result, and what
                \* the properties need of the state before it

rvars == <<lockers, cached, audioLocks, hunksSeg, hunks>>

hvars == <<scripts, clonesSeg, clones>>

vars == <<cfg, rvars, hvars, halted, h>>

(***************************************************************************)
(* Bounds of the model.                                                    *)
(***************************************************************************)
MaxLock == 2
MaxHunks == 1
MaxClones == 2
\* the clone table where the queries are checked along with the calls
MaxQueryClones == 1

(***************************************************************************)
(* Registers and 16-bit arithmetic.                                        *)
(***************************************************************************)
NULL_REG == <<0, 0>>

make_reg(seg, off) == <<seg, off % 65536>>

toUint16(r) == r[2] % 65536

getSegment(r) == r[1]

getOffset(r) == r[2]

RECURSIVE BitAnd(_, _)
BitAnd(a, b) ==
    IF a = 0 \/ b = 0 THEN 0
    ELSE (IF a % 2 = 1 /\ b % 2 = 1 THEN 1 ELSE 0) + 2 * BitAnd(a \div 2, b \div 2)

RECURSIVE BitOr(_, _)
BitOr(a, b) ==
    IF a = 0 THEN b
    ELSE IF b = 0 THEN a
    ELSE (IF a % 2 = 1 \/ b % 2 = 1 THEN 1 ELSE 0) + 2 * BitOr(a \div 2, b \div 2)

\* x & ~mask on 16 bits
BitClear(x, mask) == x - BitAnd(x, mask)

BoolReg(b) == make_reg(0, IF b THEN 1 ELSE 0)

(***************************************************************************)
(* Engine configuration.                                                   *)
(***************************************************************************)
SCI_VERSION_1_LATE == 7
SCI_VERSION_1_1 == 8
SCI_VERSION_2 == 9
SCI_VERSION_2_1_EARLY == 10
SCI_VERSION_3 == 13

Configs ==
    { [version |-> SCI_VERSION_1_LATE,    game |-> "GID_HOYLE3",    amiga |-> TRUE],
      [version |-> SCI_VERSION_1_1,       game |-> "GID_OTHER",     amiga |-> FALSE],
      [version |-> SCI_VERSION_2_1_EARLY, game |-> "GID_LSL6HIRES", amiga |-> FALSE],
      [version |-> SCI_VERSION_3,         game |-> "GID_OTHER",     amiga |-> FALSE] }

getSciVersion == cfg.version

hasSci3Audio == cfg.version = SCI_VERSION_3

(***************************************************************************)
(* Resource types and the resource volume.                                 *)
(***************************************************************************)
kResourceTypeView == 0
kResourceTypeSound == 4
kResourceTypeMemory == 5
kResourceTypeWave == 12
kResourceTypeAudio == 13
kResourceTypeAudio36 == 18
kResourceTypeSync36 == 19
kResourceTypeRobot == 21
kResourceTypeVMD == 22
kResourceTypeDuck == 26
kResourceTypeInvalid == 33

\* script-visible type numbers: bit 7 is set by the scripts and dropped here
convertResType(t) ==
    LET i == t % 128
    IN  IF i < kResourceTypeInvalid THEN i ELSE kResourceTypeInvalid

NoTuple == <<0, 0, 0, 0>>

ResourceId(type, number) == <<type, number % 65536, NoTuple>>

ResourceId36(type, number, noun, verb, cond, seq) ==
    <<type, number % 65536, <<noun, verb, cond, seq>>>>

getType(id) == id[1]

getNumber(id) == id[2]

\* the resources the volumes of the game hold
Volume ==
    { ResourceId(kResourceTypeView, 1),
      ResourceId(kResourceTypeView, 65535),
      ResourceId(kResourceTypeAudio, 1),
      ResourceId36(kResourceTypeAudio36, 1, 1, 0, 0, 1) }

\* the video files found in the game directory
Files == { "1.vmd" }

\* the resources the kLoad calls name: the two views, a wave the volume
\* lacks and whose number fills the bits of the type, an audio36 resource
\* named without its sub-keys, hunk memory
LoadCalls == { <<<<0, 128>>, <<0, 1>>>>, <<<<0, 128>>, <<0, 65535>>>>,
               <<<<0, 140>>, <<0, 65535>>>>, <<<<0, 146>>, <<0, 1>>>>,
               <<<<0, 133>>, <<0, 1>>>> }

\* the resources the kLock calls name: the two views, a sound, a digital
\* sample and an audio36 resource, all three of number 1
LockTargets ==
    { <<<<0, 128>>, <<0, 1>>>>, <<<<0, 128>>, <<0, 65535>>>>,
      <<<<0, 132>>, <<0, 1>>>>, <<<<0, 141>>, <<0, 1>>>>, <<<<0, 146>>, <<0, 1>>>> }

\* the type numbers the kResCheck calls name
CheckTypes == { 128, 140, 146, 150 }

Numbers == { 1, 65535 }

Accs == { <<0, 7>> }

(***************************************************************************)
(* ResourceManager and Audio32, as far as the kernel calls use them.  A    *)
(* store is the record [lockers, cached, audioLocks].                      *)
(***************************************************************************)
Store == [lockers |-> lockers, cached |-> cached, audioLocks |-> audioLocks]

\* ResourceManager::testResource: the resource of the volume, or null
testResource(id) == id \in Volume

\* ResourceManager::listResources
listResources(type) == { id \in Volume : getType(id) = type }

isLocked(st, id) == st.lockers[id] > 0

\* ResourceManager::findResource: null for a resource the volume lacks;
\* otherwise the resource is brought into memory, and locked once more
\* when lock is set
findResource(st, id, lock) ==
    IF ~testResource(id) THEN st
    ELSE [st EXCEPT !.cached = @ \cup {id},
                    !.lockers[id] = IF lock THEN @ + 1 ELSE @]

\* ResourceManager::unlockResource: one lock less; nothing for a resource
\* that holds no lock
unlockResource(st, id) ==
    IF ~isLocked(st, id) THEN st
    ELSE [st EXCEPT !.lockers[id] = @ - 1]

\* ResourceManager::freeOldResources: the cache drops resources that hold
\* no lock
freeOldResources(st, victims) ==
    [st EXCEPT !.cached = @ \ { v \in victims : ~isLocked(st, v) }]

\* Audio32::lockResource
lockResource(st, id, lock) ==
    [st EXCEPT !.audioLocks = IF lock THEN @ \cup {id} ELSE @ \ {id}]

\* SoundCommandParser::getSoundResourceType: digital samples replace
\* a sound resource of the same number
getSoundResourceType(number) ==
    IF testResource(ResourceId(kResourceTypeAudio, number))
    THEN kResourceTypeAudio ELSE kResourceTypeSound

(***************************************************************************)
(* kLock                                                                   *)
(***************************************************************************)
\* line 85-88: the type of the resource the call names
kLockType(c, argv0, argv1) ==
    LET type == convertResType(toUint16(argv0))
    IN  IF type = kResourceTypeSound /\ c.version >= SCI_VERSION_1_1
        THEN getSoundResourceType(toUint16(argv1))
        ELSE type

\* line 90
kLockId(c, argv0, argv1) == ResourceId(kLockType(c, argv0, argv1), toUint16(argv1))

\* line 91 with the flag read upside down
kLockFlag_Negated(argc, argv2) == IF argc > 2 THEN toUint16(argv2) = 0 ELSE TRUE

\* line 91
kLockFlag(argc, argv2) == IF argc > 2 THEN toUint16(argv2) # 0 ELSE TRUE

\* line 111 without the test of the version
kLockIsSweep_AnyVersion(c, id) == getNumber(id) = 65535

\* line 111: the request to unlock every resource of the type
kLockIsSweep(c, id) == c.version < SCI_VERSION_2 /\ getNumber(id) = 65535

\* line 113-119
kLockSweep(st, type) ==
    [st EXCEPT !.lockers =
        [id \in Volume |->
            IF id \in listResources(type) /\ isLocked(st, id)
            THEN unlockResource(st, id).lockers[id]
            ELSE st.lockers[id]]]

\* line 121-133 without the call of unlockResource
kLockUnlockOne_NoUnlock(st, id) == findResource(st, id, FALSE)

\* line 121-133
kLockUnlockOne(st, id) ==
    LET found == findResource(st, id, FALSE)
    IN  IF testResource(id) THEN unlockResource(found, id) ELSE found

\* line 85-136: the store after the call
kLockStore(st, c, argc, argv0, argv1, argv2) ==
    LET type == kLockType(c, argv0, argv1)
        id   == kLockId(c, argv0, argv1)
        lock == kLockFlag(argc, argv2)
    IN  IF c.version = SCI_VERSION_3 /\ type = kResourceTypeAudio
        THEN lockResource(st, id, lock)
        ELSE IF c.version = SCI_VERSION_1_1
                /\ type \in {kResourceTypeAudio36, kResourceTypeSync36}
        THEN st
        ELSE IF lock
        THEN findResource(st, id, TRUE)
        ELSE IF kLockIsSweep(c, id)
        THEN kLockSweep(st, type)
        ELSE kLockUnlockOne(st, id)

(***************************************************************************)
(* Segments.                                                               *)
(***************************************************************************)
ScriptNrs == { 1, 601 }

\* the segment of the game's main script, loaded when the engine starts
MainSeg == 1

UsedSegments ==
    ({ scripts[n].seg : n \in ScriptNrs } \cup { MainSeg, clonesSeg, hunksSeg }) \ {0}

\* SegManager::allocSegment: the lowest segment id not in use
allocSegment == CHOOSE k \in 1..(Cardinality(UsedSegments) + 1) :
                    /\ k \notin UsedSegments
                    /\ \A j \in 1..(k - 1) : j \in UsedSegments

\* SegManager::allocateHunkEntry: the table's segment is made on first use
allocateHunkEntry ==
    LET seg == IF hunksSeg = 0 THEN allocSegment ELSE hunksSeg
        idx == CHOOSE i \in 0..Cardinality(hunks) :
                   /\ i \notin hunks
                   /\ \A j \in 0..(i - 1) : j \in hunks
    IN  [seg |-> seg, entries |-> hunks \cup {idx}, addr |-> <<seg, idx>>]

\* SegManager::freeHunkEntry: frees the entry the address names, if any
freeHunkEntry(addr) ==
    IF hunksSeg # 0 /\ getSegment(addr) = hunksSeg
    THEN hunks \ { getOffset(addr) }
    ELSE hunks

(***************************************************************************)
(* The record of the last call.                                            *)
(***************************************************************************)
\* a script that has no segment
NoScript == [seg |-> 0, lockers |-> 0, deleted |-> FALSE]

Pad(argv) == argv \o [i \in 1..(6 - Len(argv)) |-> NULL_REG]

\* a kLock call right after a kLock call of the same resource that asked
\* for a lock, or a kScriptID call after the same kScriptID call
Chained(op, argc, argv) ==
    /\ h.op = op
    /\ h.argv[1] = argv[1]
    /\ h.argv[2] = argv[2]
    /\ \/ op = "kLock" /\ (h.argc <= 2 \/ toUint16(h.argv[3]) # 0)
       \/ op = "kScriptID" /\ h.argc = argc

\* how far the call carries the sequence kLoad, kLock asking for a lock,
\* kResCheck, all three on the same type and number (0: not at all)
Run(op, argc, argv) ==
    IF op = "kLoad" THEN 1
    ELSE IF h.argv[1] # argv[1] \/ h.argv[2] # argv[2] THEN 0
    ELSE IF op = "kLock" /\ h.op = "kLoad" /\ (argc <= 2 \/ toUint16(argv[3]) # 0)
    THEN 2
    ELSE IF op = "kResCheck" /\ h.op = "kLock" /\ h.run = 2 THEN 3
    ELSE 0

Call(op, argc, argv, acc, ret, fatal) ==
    [op |-> op, argc |-> argc, argv |-> Pad(argv), acc |-> acc, ret |-> ret,
     fatal |-> fatal, pre |-> lockers, chained |-> Chained(op, argc, Pad(argv)),
     reloc |-> FALSE, stale |-> FALSE, pcSeg |-> 0, was |-> NoScript,
     run |-> Run(op, argc, Pad(argv))]

\* the same for an object or script call, with the inputs the call took
\* from outside its arguments
HeapCall(op, argc, argv, acc, ret, fatal, reloc, stale, pcSeg) ==
    [op |-> op, argc |-> argc, argv |-> Pad(argv), acc |-> acc, ret |-> ret,
     fatal |-> fatal, pre |-> lockers, chained |-> Chained(op, argc, Pad(argv)),
     reloc |-> reloc, stale |-> stale, pcSeg |-> pcSeg, was |-> NoScript,
     run |-> 0]

(***************************************************************************)
(* kLoad, kUnLoad                                                          *)
(***************************************************************************)
\* line 48: the resource identifier as handle
\* line 48 with a shift by 10 bits
kLoadHandle_Shift10(restype, resnr) == make_reg(0, BitOr(restype * 1024, resnr))

kLoadHandle(restype, resnr) == make_reg(0, BitOr(restype * 2048, resnr))

\* line 40-49
kLoad ==
    \E call \in LoadCalls, acc \in Accs :
        LET argv0   == call[1]
            argv1   == call[2]
            restype == convertResType(toUint16(argv0))
            resnr   == toUint16(argv1)
        IN  /\ ~halted
            /\ IF restype = kResourceTypeMemory
               THEN /\ Cardinality(hunks) < MaxHunks
                    /\ hunksSeg' = allocateHunkEntry.seg
                    /\ hunks' = allocateHunkEntry.entries
                    /\ h' = Call("kLoad", 2, <<argv0, argv1>>, acc,
                                 allocateHunkEntry.addr, FALSE)
               ELSE /\ UNCHANGED <<hunksSeg, hunks>>
                    /\ h' = Call("kLoad", 2, <<argv0, argv1>>, acc,
                                 kLoadHandle(restype, resnr), FALSE)
            /\ UNCHANGED <<cfg, lockers, cached, audioLocks, hvars, halted>>

\* line 63-64 without the test of the type
kUnLoadHunks_AnyType(restype, addr) == freeHunkEntry(addr)

\* line 63-64: only for hunk memory the entry of the handle is freed
kUnLoadHunks(restype, addr) ==
    IF restype = kResourceTypeMemory THEN freeHunkEntry(addr) ELSE hunks

\* line 54-67
kUnLoad ==
    \E argv0 \in { <<0, 128>>, <<0, 133>> },
       argv1 \in { <<0, 1>> } \cup { <<hunksSeg, i>> : i \in 0..(MaxHunks - 1) },
       acc \in Accs :
        LET restype == convertResType(toUint16(argv0))
        IN  /\ ~halted
            /\ hunks' = kUnLoadHunks(restype, argv1)
            /\ h' = Call("kUnLoad", 2, <<argv0, argv1>>, acc, acc, FALSE)
            /\ UNCHANGED <<cfg, lockers, cached, audioLocks, hunksSeg, hvars, halted>>

(***************************************************************************)
(* kLock: the call                                                         *)
(***************************************************************************)
\* the resources the cache drops during a call about id: none, or, under
\* memory pressure, every resource but id (those that hold a lock stay);
\* the resource manager returns at once from the lookup of a resource the
\* volume lacks, and drops nothing
Victims(id, pressure) ==
    IF pressure /\ testResource(id) THEN Volume \ {id} ELSE {}

\* line 69-137
kLock ==
    \E target \in LockTargets, argc \in {2, 3}, argv2 \in { <<0, 0>>, <<0, 1>> },
       acc \in Accs, pressure \in BOOLEAN :
     LET argv0 == target[1]
         argv1 == target[2]
     IN
      /\ ~halted
      /\ argc = 2 => argv2 = NULL_REG
      /\ \E st \in { freeOldResources(
                         kLockStore(Store, cfg, argc, argv0, argv1, argv2),
                         Victims(kLockId(cfg, argv0, argv1), pressure)) } :
            /\ \A id \in Volume : st.lockers[id] <= MaxLock
            /\ lockers' = st.lockers
            /\ cached' = st.cached
            /\ audioLocks' = st.audioLocks
      /\ h' = Call("kLock", argc, <<argv0, argv1, argv2>>, acc, acc, FALSE)
      /\ UNCHANGED <<cfg, hunksSeg, hunks, hvars, halted>>

(***************************************************************************)
(* kResCheck                                                               *)
(***************************************************************************)
\* line 171-183: the file name pattern of a streamed video type
videoFormat(restype) ==
    CASE restype = kResourceTypeRobot -> "rbt"
      [] restype = kResourceTypeDuck  -> "duk"
      [] restype = kResourceTypeVMD   -> "vmd"
      [] OTHER -> ""

\* Common::File::exists of the formatted name
fileExists(number, ext) ==
    \E n \in Numbers : n = number /\ ext = "vmd" /\ n = 1 /\ "1.vmd" \in Files

\* line 140-154 with six arguments asked of every type
kResCheckFound_SubkeysAlways(restype, argc, argv) ==
    /\ argc >= 6
    /\ IF restype \in {kResourceTypeAudio36, kResourceTypeSync36}
       THEN testResource(ResourceId36(restype, toUint16(argv[2]),
                toUint16(argv[3]) % 256, toUint16(argv[4]) % 256,
                toUint16(argv[5]) % 256, toUint16(argv[6]) % 256))
       ELSE testResource(ResourceId(restype, toUint16(argv[2])))

\* line 140-154 with the sub-keys taken whole
kResCheckFound_NoMask(restype, argc, argv) ==
    IF restype \in {kResourceTypeAudio36, kResourceTypeSync36}
    THEN /\ argc >= 6
         /\ testResource(ResourceId36(restype, toUint16(argv[2]),
                toUint16(argv[3]), toUint16(argv[4]),
                toUint16(argv[5]), toUint16(argv[6])))
    ELSE testResource(ResourceId(restype, toUint16(argv[2])))

\* line 140-154: whether the resource manager knows the resource
kResCheckFound(restype, argc, argv) ==
    IF restype \in {kResourceTypeAudio36, kResourceTypeSync36}
    THEN /\ argc >= 6
         /\ testResource(ResourceId36(restype, toUint16(argv[2]),
                toUint16(argv[3]) % 256, toUint16(argv[4]) % 256,
                toUint16(argv[5]) % 256, toUint16(argv[6]) % 256))
    ELSE testResource(ResourceId(restype, toUint16(argv[2])))

\* line 139-193: the result
kResCheckResult(c, argc, argv) ==
    LET restype == convertResType(toUint16(argv[1]))
        res0 == kResCheckFound(restype, argc, argv)
        res  == IF c.game = "GID_LSL6HIRES" /\ restype = kResourceTypeWave /\ ~res0
                THEN testResource(ResourceId(kResourceTypeAudio, toUint16(argv[2])))
                ELSE res0
    IN  IF ~res /\ videoFormat(restype) # ""
        THEN BoolReg(fileExists(toUint16(argv[2]), videoFormat(restype)))
        ELSE BoolReg(res)

\* the argument lists of the kResCheck calls: two arguments for every type
\* and number, and six for the audio36 resource of the volume, with a noun
\* that matches, one that matches in its low byte only, and one that does not
CheckCalls ==
    { <<<<0, t>>, <<0, n>>>> : t \in CheckTypes, n \in Numbers }
    \cup { <<<<0, t>>, <<0, 1>>, <<0, noun>>, NULL_REG, NULL_REG, <<0, 1>>>> :
               t \in {146, 147}, noun \in {1, 257, 2} }

kResCheck ==
    \E args \in CheckCalls, acc \in Accs :
        /\ ~halted
        /\ h' = Call("kResCheck", Len(args), args, acc,
                     kResCheckResult(cfg, Len(args), Pad(args)), FALSE)
        /\ UNCHANGED <<cfg, rvars, hvars, halted>>

(***************************************************************************)
(* The resource calls as a system.                                         *)
(***************************************************************************)
NoCall ==
    [op |-> "none", argc |-> 0, argv |-> Pad(<<>>), acc |-> NULL_REG,
     ret |-> NULL_REG, fatal |-> FALSE, pre |-> [id \in Volume |-> 0],
     chained |-> FALSE, reloc |-> FALSE, stale |-> FALSE, pcSeg |-> 0,
     was |-> NoScript, run |-> 0]

Init ==
    /\ cfg \in Configs
    /\ lockers = [id \in Volume |-> 0]
    /\ cached = {}
    /\ audioLocks = {}
    /\ hunksSeg = 0
    /\ hunks = {}
    /\ scripts = [n \in ScriptNrs |-> NoScript]
    /\ clonesSeg = 0
    /\ clones = <<>>
    /\ halted = FALSE
    /\ h = NoCall

ResNext == kLoad \/ kUnLoad \/ kLock \/ kResCheck

ResSpec == Init /\ [][ResNext]_vars

(***************************************************************************)
(* Scripts and objects.  A heap is the record [scripts, clonesSeg, clones, *)
(* hunksSeg]; an object is the record [info, species, super, pos, freed].  *)
(***************************************************************************)
kInfoFlagClone == 1
kInfoFlagClass == 32768
SIGNAL_OFFSET == 65535
SCRIPT_GET_DONT_LOAD == 0
SCRIPT_GET_LOAD == 1
SCRIPT_GET_LOCK == 3

Heap == [scripts |-> scripts, clonesSeg |-> clonesSeg, clones |-> clones,
         hunksSeg |-> hunksSeg]

\* the dispatch table of each script resource: script 1 exports nothing
Exports(n) == IF n = 601 THEN <<12, 40>> ELSE <<>>

\* Script::getHeapOffset
HeapOffset(n) == IF n = 601 THEN 100 ELSE 0

\* the objects each script resource defines, by offset: the info selector
\* and the offset of the class the object descends from (0: none).  Script
\* 1 holds a class and an instance of it, script 601 holds no object.
ScriptObjects(n) ==
    IF n = 1
    THEN (12 :> [info |-> kInfoFlagClass, superOff |-> 0]) @@
         (40 :> [info |-> 16, superOff |-> 12])
    ELSE << >>

\* the selectors each script object answers
Selectors(n, off) == IF off = 12 THEN {7} ELSE {7, 8}

usedSegments(hp) ==
    ({ hp.scripts[n].seg : n \in ScriptNrs }
        \cup { MainSeg, hp.clonesSeg, hp.hunksSeg }) \ {0}

\* SegManager::allocSegment on a heap
allocSegmentIn(hp) ==
    CHOOSE k \in 1..(Cardinality(usedSegments(hp)) + 1) :
        /\ k \notin usedSegments(hp)
        /\ \A j \in 1..(k - 1) : j \in usedSegments(hp)

\* the script number whose segment is seg (0: seg is no script segment)
scriptOfSegment(hp, seg) ==
    IF seg # 0 /\ \E n \in ScriptNrs : hp.scripts[n].seg = seg
    THEN CHOOSE n \in ScriptNrs : hp.scripts[n].seg = seg
    ELSE 0

\* SegManager::getScriptSegment(script): 0 for a script without segment
getScriptSegment(hp, script) ==
    IF script \in ScriptNrs THEN hp.scripts[script].seg ELSE 0

\* Script::incrementLockers
incrementLockers(hp, n) == [hp EXCEPT !.scripts[n].lockers = @ + 1]

\* Script::setLockers
setLockers(hp, n, k) == [hp EXCEPT !.scripts[n].lockers = k]

\* SegManager::instantiateScript, called by getScriptSegment(script, load):
\* a script that is in memory is located, not loaded again; a script that is
\* not (or is marked deleted) is loaded with one locker; a script the
\* resources lack is not found
instantiateScript(hp, script) ==
    IF script \notin ScriptNrs THEN hp
    ELSE IF hp.scripts[script].seg # 0 /\ ~hp.scripts[script].deleted THEN hp
    ELSE [hp EXCEPT !.scripts[script] =
             [seg |-> IF @.seg # 0 THEN @.seg ELSE allocSegmentIn(hp),
              lockers |-> 1, deleted |-> FALSE]]

\* SegManager::getScriptSegment(script, load): the heap after the call
getScriptSegmentLoad(hp, script, load) ==
    LET loaded == IF load % 2 = 1 THEN instantiateScript(hp, script) ELSE hp
    IN  IF load = SCRIPT_GET_LOCK /\ getScriptSegment(loaded, script) # 0
        THEN incrementLockers(loaded, script)
        ELSE loaded

\* SegManager::uninstantiateScript: one locker less; the script is
\* reclaimed (marked deleted) when none is left
uninstantiateScript(hp, script) ==
    IF script \notin ScriptNrs THEN hp
    ELSE IF hp.scripts[script].seg = 0 \/ hp.scripts[script].deleted THEN hp
    ELSE LET left == IF hp.scripts[script].lockers > 0
                     THEN hp.scripts[script].lockers - 1 ELSE 0
         IN  [hp EXCEPT !.scripts[script].lockers = left,
                        !.scripts[script].deleted = (left = 0)]

\* the object a script resource defines at an offset of its segment
scriptObject(seg, n, off) ==
    [info    |-> ScriptObjects(n)[off].info,
     species |-> IF ScriptObjects(n)[off].superOff = 0 THEN <<seg, off>>
                 ELSE <<seg, ScriptObjects(n)[off].superOff>>,
     super   |-> IF ScriptObjects(n)[off].superOff = 0 THEN NULL_REG
                 ELSE <<seg, ScriptObjects(n)[off].superOff>>,
     pos     |-> <<seg, off>>,
     freed   |-> FALSE]

inCloneTable(hp, addr) ==
    /\ hp.clonesSeg # 0
    /\ getSegment(addr) = hp.clonesSeg
    /\ getOffset(addr) < Len(hp.clones)

inScript(hp, addr) ==
    LET n == scriptOfSegment(hp, getSegment(addr))
    IN  n # 0 /\ getOffset(addr) \in DOMAIN ScriptObjects(n)

\* SegManager::getObject: whether the address resolves to an object
resolves(hp, addr) == inCloneTable(hp, addr) \/ inScript(hp, addr)

\* SegManager::getObject: the object, for an address that resolves
getObject(hp, addr) ==
    IF inCloneTable(hp, addr)
    THEN hp.clones[getOffset(addr) + 1]
    ELSE scriptObject(getSegment(addr), scriptOfSegment(hp, getSegment(addr)),
                      getOffset(addr))

\* SegManager::isHeapObject: the address resolves to an object that is not
\* freed and does not lie in a script marked deleted
isHeapObject(hp, addr) ==
    /\ resolves(hp, addr)
    /\ ~getObject(hp, addr).freed
    /\ LET n == scriptOfSegment(hp, getSegment(addr))
       IN  n # 0 => ~hp.scripts[n].deleted

\* Object::isClass
isClass(obj) == BitAnd(obj.info, kInfoFlagClass) # 0

\* lookupSelector: the selectors of the script object the object is based on
lookupSelector(hp, addr, selector) ==
    LET base == getObject(hp, addr).pos
        n    == scriptOfSegment(hp, getSegment(base))
    IN  /\ n # 0
        /\ getOffset(base) \in DOMAIN ScriptObjects(n)
        /\ selector \in Selectors(n, getOffset(base))

(***************************************************************************)
(* kClone                                                                  *)
(***************************************************************************)
\* SegManager::allocateClone: the table's segment is made on first use; the
\* new entry takes the next slot of the table
allocateClone(hp) ==
    [hp EXCEPT !.clonesSeg = IF @ = 0 THEN allocSegmentIn(hp) ELSE @]

cloneAddrOf(hp) == <<allocateClone(hp).clonesSeg, Len(hp.clones)>>

\* line 225-226: the parent is looked up again after the allocation only
\* when its info selector carries the clone flag.  A parent in the clone
\* table that is not looked up again is read through a pointer that the
\* allocation has invalidated when the table moved.
kCloneStale(hp, parentAddr, reloc) ==
    /\ reloc
    /\ inCloneTable(hp, parentAddr)
    /\ BitAnd(getObject(hp, parentAddr).info, kInfoFlagClone) = 0

\* what a read of invalidated storage can yield besides the old contents:
\* zeroes, or the bytes of some class object of another script
Garbage(hp) ==
    { [info |-> 0, species |-> NULL_REG, super |-> NULL_REG, pos |-> NULL_REG,
       freed |-> FALSE] }
    \cup { [info |-> kInfoFlagClass, species |-> NULL_REG, super |-> NULL_REG,
            pos |-> <<hp.scripts[n].seg, 12>>, freed |-> FALSE] :
              n \in { m \in {601} : hp.scripts[m].seg # 0 } }

\* line 228: what *parentObj yields
ParentViews(hp, parentAddr, reloc) ==
    IF kCloneStale(hp, parentAddr, reloc)
    THEN { getObject(hp, parentAddr) } \cup Garbage(hp)
    ELSE { getObject(hp, parentAddr) }

\* line 231-232 without the removal of the class bit
kCloneInfo_KeepsClass(infoSelector) == BitOr(infoSelector, kInfoFlagClone)

\* line 231-232: the info selector of the clone
kCloneInfo(infoSelector) ==
    BitOr(BitClear(infoSelector, kInfoFlagClass), kInfoFlagClone)

\* line 228-236 with the superclass never set
kCloneObject_NoSuper(parent, infoSelector) ==
    [parent EXCEPT !.info = kCloneInfo(infoSelector), !.species = parent.pos]

\* line 228-236: the clone, from what *parentObj yields and the info
\* selector read before the allocation
kCloneObject(parent, infoSelector) ==
    [parent EXCEPT !.info = kCloneInfo(infoSelector),
                   !.species = parent.pos,
                   !.super = IF isClass(parent) THEN parent.pos ELSE parent.super]

\* line 237-238: the lockers of the scripts of the two positions
kCloneLockers(hp, parentPos, clonePos) ==
    incrementLockers(
        incrementLockers(hp, scriptOfSegment(hp, getSegment(parentPos))),
        scriptOfSegment(hp, getSegment(clonePos)))

\* line 195-241 for a parent that resolves: the heap, the result, and
\* whether getScript found no script at a position (a fatal error)
kCloneResult(hp, parentAddr, parent) ==
    LET infoSelector == getObject(hp, parentAddr).info
        cloneObj == kCloneObject(parent, infoSelector)
        hp1 == [allocateClone(hp) EXCEPT !.clones = Append(@, cloneObj)]
        bad == scriptOfSegment(hp1, getSegment(parent.pos)) = 0
               \/ scriptOfSegment(hp1, getSegment(cloneObj.pos)) = 0
    IN  [heap  |-> IF bad THEN hp1 ELSE kCloneLockers(hp1, parent.pos, cloneObj.pos),
         ret   |-> IF bad THEN NULL_REG ELSE cloneAddrOf(hp),
         fatal |-> bad]

\* the addresses the scripts pass: null, the objects of the scripts that
\* have a segment, the entries of the clone table
ObjectArgs ==
    { NULL_REG }
    \cup UNION { { <<scripts[n].seg, off>> : off \in DOMAIN ScriptObjects(n) } :
                   n \in { m \in ScriptNrs : scripts[m].seg # 0 } }
    \cup { <<clonesSeg, i>> : i \in 0..(Len(clones) - 1) }

SetHeap(hp) ==
    /\ scripts' = hp.scripts
    /\ clonesSeg' = hp.clonesSeg
    /\ clones' = hp.clones

\* line 195-241
kClone ==
    \E parentAddr \in ObjectArgs, reloc \in BOOLEAN, acc \in Accs :
        /\ ~halted
        /\ IF ~resolves(Heap, parentAddr)
           THEN /\ ~reloc
                /\ halted' = TRUE
                /\ h' = HeapCall("kClone", 1, <<parentAddr>>, acc, NULL_REG, TRUE,
                                 FALSE, FALSE, 0)
                /\ UNCHANGED hvars
           ELSE /\ Len(clones) < MaxClones
                /\ reloc => Len(clones) > 0
                /\ \E parent \in ParentViews(Heap, parentAddr, reloc) :
                     \E r \in { kCloneResult(Heap, parentAddr, parent) } :
                        /\ SetHeap(r.heap)
                        /\ halted' = r.fatal
                        /\ h' = HeapCall("kClone", 1, <<parentAddr>>, acc, r.ret,
                                         r.fatal, reloc,
                                         kCloneStale(Heap, parentAddr, reloc), 0)
        /\ UNCHANGED <<cfg, rvars>>

(***************************************************************************)
(* kDisposeClone, and the scripts' own writes to an info selector          *)
(***************************************************************************)
\* line 258 testing the clone flag alone
kDisposeCloneFrees_FlagOnly(infoSelector) ==
    BitAnd(infoSelector, kInfoFlagClone) # 0

\* line 258
kDisposeCloneFrees(infoSelector) == BitAnd(infoSelector, 3) = kInfoFlagClone

\* Object::markAsFreed on the object at an address
markAsFreed(hp, addr) ==
    IF inCloneTable(hp, addr)
    THEN [hp EXCEPT !.clones[getOffset(addr) + 1].freed = TRUE]
    ELSE hp

\* line 257-259 with a release of the script that owns the object
kDisposeCloneHeap_Unlocks(hp, obj) ==
    LET freed == IF kDisposeCloneFrees(getObject(hp, obj).info)
                 THEN markAsFreed(hp, obj) ELSE hp
        owner == scriptOfSegment(hp, getSegment(getObject(hp, obj).pos))
    IN  IF owner \in ScriptNrs /\ freed.scripts[owner].lockers > 0
        THEN setLockers(freed, owner, freed.scripts[owner].lockers - 1)
        ELSE freed

\* line 257-259: the heap after the call on an object that resolves
kDisposeCloneHeap(hp, obj) ==
    IF kDisposeCloneFrees(getObject(hp, obj).info)
    THEN markAsFreed(hp, obj) ELSE hp

\* line 261 with the return of kDisposeScript
kDisposeCloneReturn_Passthrough(argc, argv, acc) ==
    IF argc # 2 THEN acc ELSE argv[2]

\* line 261: the accumulator, whatever the arguments
kDisposeCloneReturn(argc, argv, acc) == acc

\* the argument lists of the kDisposeClone calls: an address alone, and
\* the first entry of the clone table followed by a second argument
DisposeCloneCalls ==
    { <<obj>> : obj \in ObjectArgs }
    \cup { <<<<clonesSeg, i>>, <<0, 9>>>> : i \in 0..(Len(clones) - 1) \cap {0} }

\* line 243-262
kDisposeClone ==
    \E argv \in DisposeCloneCalls, acc \in Accs :
        LET obj  == argv[1]
            argc == Len(argv)
            ret  == kDisposeCloneReturn(argc, Pad(argv), acc)
        IN  /\ ~halted
            /\ IF ~resolves(Heap, obj)
               THEN /\ halted' = TRUE
                    /\ h' = HeapCall("kDisposeClone", argc, argv, acc, acc, TRUE,
                                     FALSE, FALSE, 0)
                    /\ UNCHANGED hvars
               ELSE /\ SetHeap(kDisposeCloneHeap(Heap, obj))
                    /\ halted' = FALSE
                    /\ h' = HeapCall("kDisposeClone", argc, argv, acc, ret, FALSE,
                                     FALSE, FALSE, 0)
            /\ UNCHANGED <<cfg, rvars>>

\* a script writes the two low bits of the info selector of a clone
\* (comment of line 253-256)
WriteInfo ==
    \E i \in 1..Len(clones), low \in {0, 3} :
        /\ ~halted
        /\ clones[i].info % 4 = kInfoFlagClone
        /\ clones' = [clones EXCEPT ![i].info = (@ - (@ % 4)) + low]
        /\ h' = HeapCall("WriteInfo", 2, <<<<clonesSeg, i - 1>>, <<0, low>>>>,
                         NULL_REG, NULL_REG, FALSE, FALSE, FALSE, 0)
        /\ UNCHANGED <<cfg, rvars, scripts, clonesSeg, halted>>

(***************************************************************************)
(* kScriptID                                                               *)
(***************************************************************************)
\* line 272 asking for a lock as well
kScriptIDLoad_Lock(hp, script) == getScriptSegmentLoad(hp, script, SCRIPT_GET_LOCK)

\* line 272: the heap after getScriptSegment(script, SCRIPT_GET_LOAD)
kScriptIDLoad(hp, script) == getScriptSegmentLoad(hp, script, SCRIPT_GET_LOAD)

\* Script::validateExportFunc: whether the table has the export
validExport(script, index) == index < Len(Exports(script))

\* line 266-298 without the early return of line 269-270
kScriptIDResult_NoShortcut(hp, c, argc, argv) ==
    LET script    == toUint16(argv[1])
        index     == IF argc > 1 THEN toUint16(argv[2]) ELSE 0
        scriptSeg == getScriptSegment(kScriptIDLoad(hp, script), script)
    IN  IF scriptSeg = 0
        THEN [ret |-> NULL_REG, fatal |-> FALSE]
        ELSE IF Len(Exports(script)) = 0
        THEN [ret |-> NULL_REG, fatal |-> argc = 2]
        ELSE IF c.game = "GID_HOYLE3" /\ c.amiga /\ script = 601 /\ argc = 1
        THEN [ret |-> NULL_REG, fatal |-> FALSE]
        ELSE IF ~validExport(script, index)
        THEN [ret |-> NULL_REG, fatal |-> TRUE]
        ELSE [ret |-> <<scriptSeg, Exports(script)[index + 1] + HeapOffset(script)>>,
              fatal |-> FALSE]

\* line 266-298 with the test of line 267 in line 286
kScriptIDResult_AnyIndex(hp, c, argc, argv) ==
    LET script    == toUint16(argv[1])
        index     == IF argc > 1 THEN toUint16(argv[2]) ELSE 0
        scriptSeg == getScriptSegment(kScriptIDLoad(hp, script), script)
    IN  IF getSegment(argv[1]) # 0
        THEN [ret |-> argv[1], fatal |-> FALSE]
        ELSE IF scriptSeg = 0
        THEN [ret |-> NULL_REG, fatal |-> FALSE]
        ELSE IF Len(Exports(script)) = 0
        THEN [ret |-> NULL_REG, fatal |-> argc > 1]
        ELSE IF c.game = "GID_HOYLE3" /\ c.amiga /\ script = 601 /\ argc = 1
        THEN [ret |-> NULL_REG, fatal |-> FALSE]
        ELSE IF ~validExport(script, index)
        THEN [ret |-> NULL_REG, fatal |-> TRUE]
        ELSE [ret |-> <<scriptSeg, Exports(script)[index + 1] + HeapOffset(script)>>,
              fatal |-> FALSE]

\* line 266-298: the result and whether the call ends in error()
kScriptIDResult(hp, c, argc, argv) ==
    LET script    == toUint16(argv[1])
        index     == IF argc > 1 THEN toUint16(argv[2]) ELSE 0
        scriptSeg == getScriptSegment(kScriptIDLoad(hp, script), script)
    IN  IF getSegment(argv[1]) # 0
        THEN [ret |-> argv[1], fatal |-> FALSE]
        ELSE IF scriptSeg = 0
        THEN [ret |-> NULL_REG, fatal |-> FALSE]
        ELSE IF Len(Exports(script)) = 0
        THEN [ret |-> NULL_REG, fatal |-> argc = 2]
        ELSE IF c.game = "GID_HOYLE3" /\ c.amiga /\ script = 601 /\ argc = 1
        THEN [ret |-> NULL_REG, fatal |-> FALSE]
        ELSE IF ~validExport(script, index)
        THEN [ret |-> NULL_REG, fatal |-> TRUE]
        ELSE [ret |-> <<scriptSeg, Exports(script)[index + 1] + HeapOffset(script)>>,
              fatal |-> FALSE]

\* the argument lists of the kScriptID calls: a script number alone or with
\* an export index, for the two scripts and for a script the resources
\* lack, an export index followed by a third argument, and an address that
\* is resolved already
ScriptIDCalls ==
    { <<<<0, n>>>> : n \in {1, 3, 601} }
    \cup { <<<<0, 1>>, <<0, 0>>>>, <<<<0, 601>>, <<0, 1>>>>, <<<<0, 601>>, <<0, 2>>>> }
    \cup { <<<<0, 1>>, <<0, 0>>, <<0, 0>>>> }
    \cup { <<<<MainSeg, 40>>>>, <<<<MainSeg, 40>>, <<0, 2>>>> }

\* line 265-298
kScriptID ==
    \E argv \in ScriptIDCalls, acc \in Accs :
        /\ ~halted
        /\ SetHeap(IF getSegment(argv[1]) # 0 THEN Heap
                   ELSE kScriptIDLoad(Heap, toUint16(argv[1])))
        /\ \E r \in { kScriptIDResult(Heap, cfg, Len(argv), Pad(argv)) } :
              /\ halted' = r.fatal
              /\ h' = HeapCall("kScriptID", Len(argv), argv, acc, r.ret, r.fatal,
                               FALSE, FALSE, 0)
        /\ UNCHANGED <<cfg, rvars>>

(***************************************************************************)
(* kDisposeScript                                                          *)
(***************************************************************************)
\* line 305-308 without the call of setLockers
kDisposeScriptForce_Never(hp, script, pcSeg) == hp

\* line 305-308 without the test of the execution stack
kDisposeScriptForce_Always(hp, script, pcSeg) ==
    IF script \in ScriptNrs /\ hp.scripts[script].seg # 0
       /\ ~hp.scripts[script].deleted
    THEN setLockers(hp, script, 1)
    ELSE hp

\* line 303-308: the lockers of a loaded script are set to 1 unless the
\* code that runs lies in the script
kDisposeScriptForce(hp, script, pcSeg) ==
    IF script \in ScriptNrs /\ hp.scripts[script].seg # 0
       /\ ~hp.scripts[script].deleted
       /\ pcSeg # getScriptSegment(hp, script)
    THEN setLockers(hp, script, 1)
    ELSE hp

\* the kDisposeScript calls: <<script, argc, inside>>, inside telling
\* whether the code that runs lies in the script's segment; a script that
\* has no segment cannot hold the code that runs
DisposeScriptCalls ==
    { <<1, 1, TRUE>>, <<1, 1, FALSE>>, <<1, 2, FALSE>>, <<1, 3, FALSE>>,
      <<601, 1, FALSE>>, <<3, 1, FALSE>> }

\* line 312-316 with the test of line 267
kDisposeScriptReturn_AnySecond(argc, argv, acc) ==
    IF argc > 1 THEN argv[2] ELSE acc

\* line 312-316: the second argument when there are exactly two
kDisposeScriptReturn(argc, argv, acc) ==
    IF argc # 2 THEN acc ELSE argv[2]

\* line 300-317
kDisposeScript ==
    \E call \in DisposeScriptCalls, acc \in Accs :
        LET script == call[1]
            argc   == call[2]
            argv   == IF argc = 1 THEN <<<<0, script>>>>
                      ELSE IF argc = 2 THEN <<<<0, script>>, <<0, 9>>>>
                      ELSE <<<<0, script>>, <<0, 9>>, <<0, 0>>>>
            pcSeg  == IF call[3] THEN getScriptSegment(Heap, script) ELSE MainSeg
        IN  /\ ~halted
            /\ call[3] => getScriptSegment(Heap, script) # 0
            /\ SetHeap(uninstantiateScript(
                           kDisposeScriptForce(Heap, script, pcSeg), script))
            /\ h' = [HeapCall("kDisposeScript", argc, argv, acc,
                              kDisposeScriptReturn(argc, Pad(argv), acc), FALSE,
                              FALSE, FALSE, pcSeg)
                        EXCEPT !.was = IF script \in ScriptNrs
                                       THEN scripts[script] ELSE NoScript]
            /\ UNCHANGED <<cfg, rvars, halted>>

(***************************************************************************)
(* kIsObject, kRespondsTo                                                  *)
(***************************************************************************)
\* line 319-324 with getObject in the place of isHeapObject
kIsObjectResult_Resolves(hp, argv0) ==
    IF getOffset(argv0) = SIGNAL_OFFSET THEN NULL_REG
    ELSE BoolReg(resolves(hp, argv0))

\* line 319-324
kIsObjectResult(hp, argv0) ==
    IF getOffset(argv0) = SIGNAL_OFFSET THEN NULL_REG
    ELSE BoolReg(isHeapObject(hp, argv0))

kIsObject ==
    \E argv0 \in ObjectArgs \cup { <<0, SIGNAL_OFFSET>> }, acc \in Accs :
        /\ ~halted
        /\ h' = HeapCall("kIsObject", 1, <<argv0>>, acc,
                         kIsObjectResult(Heap, argv0), FALSE, FALSE, FALSE, 0)
        /\ UNCHANGED <<cfg, rvars, hvars, halted>>

\* line 326-331
kRespondsToResult(hp, obj, selector) ==
    BoolReg(isHeapObject(hp, obj) /\ lookupSelector(hp, obj, selector))

kRespondsTo ==
    \E obj \in ObjectArgs, argv1 \in { <<0, 8>> }, acc \in Accs :
        /\ ~halted
        /\ h' = HeapCall("kRespondsTo", 2, <<obj, argv1>>, acc,
                         kRespondsToResult(Heap, obj, toUint16(argv1)), FALSE,
                         FALSE, FALSE, 0)
        /\ UNCHANGED <<cfg, rvars, hvars, halted>>

(***************************************************************************)
(* The object and script calls as a system.                                *)
(***************************************************************************)
\* the object and script calls read the game and the platform only
HeapInit == Init /\ cfg.version <= SCI_VERSION_1_1

\* the calls that change the heap (kIsObject and kRespondsTo change nothing)
KernelNext == kClone \/ kDisposeClone \/ kScriptID \/ kDisposeScript

\* one game that has no workaround in the calls
GameInit == HeapInit /\ cfg.game = "GID_OTHER"

\* the kernel calls alone, in that game: no script writes an info selector
KernelSpec == GameInit /\ [][KernelNext]_vars

\* the calls that make, read and free clones, and the scripts' writes to
\* the info selectors of clones (kDisposeScript touches no clone)
CloneNext == kScriptID \/ kClone \/ kDisposeClone \/ WriteInfo

CloneSpec == GameInit /\ [][CloneNext]_vars

\* the script calls alone, in every game
ScriptNext == kScriptID \/ kDisposeScript

ScriptSpec == HeapInit /\ [][ScriptNext]_vars

\* the calls on object addresses, with the queries, on a clone table of
\* at most MaxQueryClones entries
QueryNext ==
    \/ kScriptID
    \/ (kClone /\ Len(clones') <= MaxQueryClones)
    \/ kDisposeClone
    \/ kDisposeScript
    \/ kIsObject
    \/ kRespondsTo

QuerySpec == GameInit /\ [][QueryNext]_vars

(***************************************************************************)
(* Properties of the resource calls.                                       *)
(***************************************************************************)
\* the call c is lock(., ., false): a third argument is given and is zero
IsUnlockCall(c) == c.op = "kLock" /\ c.argc > 2 /\ toUint16(c.argv[3]) = 0

\* the resources of the volume that carry the number the call c names
Named(c) == { r \in Volume : getNumber(r) = toUint16(c.argv[2]) }

\* C1: lock(R, true) directly followed by lock(R, false) leaves the lock
\* count of R (of every resource with the number named) at the value it
\* had before the lock(R, true) call.  h.pre is the lock counts before the
\* first call of the pair.
C1_LockThenUnlockRestores ==
    [][ (IsUnlockCall(h') /\ h'.chained)
            => \A r \in Named(h') : lockers'[r] = h.pre[r] ]_vars

\* C1 witness: a lock/unlock pair on a resource that was locked once
\* before the pair and is locked once after it
C1_Witness ==
    /\ IsUnlockCall(h) /\ h.chained
    /\ \E r \in Named(h) : h.pre[r] = 2 /\ lockers[r] = 1

\* the call c asks to unlock every resource of a type
IsSweepCall(c) ==
    IsUnlockCall(c) /\ cfg.version < SCI_VERSION_2 /\ toUint16(c.argv[2]) = 65535

\* the call c is lock(R, false) of one resource R of the volume
UnlockTarget(c) ==
    IF IsUnlockCall(c) /\ ~IsSweepCall(c)
    THEN { kLockId(cfg, c.argv[1], c.argv[2]) } \cap Volume
    ELSE {}

Cloned == h'.op = "kClone" /\ ~h'.fatal

\* the step is a kClone call on a live class object of a script segment
\* that returned a clone
ClonedClass ==
    /\ Cloned
    /\ inScript(Heap, h'.argv[1])
    /\ isHeapObject(Heap, h'.argv[1])
    /\ isClass(getObject(Heap, h'.argv[1]))

\* the address returned is new: not the parent's, and no address that
\* resolved before the call
FreshAddress ==
    /\ h'.ret # h'.argv[1]
    /\ h'.ret \notin ObjectArgs
    /\ ~resolves(Heap, h'.ret)

OwnerOf(hp, addr) == scriptOfSegment(hp, getSegment(getObject(hp, addr).pos))

\* C4: a successful cloneObject(P) adds one to the lockers of the script
\* that owns P and one to the lockers of the script that owns the new
\* clone (two when they are the same script), and changes no other
\* script's lockers
C4_LockersOfOwners ==
    [][ Cloned =>
          \A n \in ScriptNrs :
              scripts'[n].lockers =
                  scripts[n].lockers
                  + (IF OwnerOf(Heap, h'.argv[1]) = n THEN 1 ELSE 0)
                  + (IF OwnerOf(Heap', h'.ret) = n THEN 1 ELSE 0) ]_vars

\* C5: the clone of a parent that is not a class has the parent's
\* superclass, not the parent's address, also when the table moved
C5_CloneOfCloneKeepsSuper ==
    [][ (Cloned /\ ~isClass(getObject(Heap, h'.argv[1]))) =>
          /\ getObject(Heap', h'.ret).super = getObject(Heap, h'.argv[1]).super
          /\ getObject(Heap', h'.ret).super # h'.argv[1] ]_vars

\* the info selector without the clone and class bits
OtherBits(info) == BitClear(info, kInfoFlagClone + kInfoFlagClass)

\* C6: with kernel calls only, every entry of the clone table has the
\* clone bit set and the class bit clear, and a new clone has the other
\* bits of its parent's info selector
C6_CloneFlags ==
    /\ \A i \in 1..Len(clones) :
          /\ BitAnd(clones[i].info, kInfoFlagClone) = kInfoFlagClone
          /\ BitAnd(clones[i].info, kInfoFlagClass) = 0
    /\ [][ Cloned =>
             /\ BitAnd(getObject(Heap', h'.ret).info, kInfoFlagClone) = kInfoFlagClone
             /\ BitAnd(getObject(Heap', h'.ret).info, kInfoFlagClass) = 0
             /\ OtherBits(getObject(Heap', h'.ret).info)
                    = OtherBits(getObject(Heap, h'.argv[1]).info) ]_vars

\* C6 witness: a clone of the class and a clone of the instance, whose
\* info selector carries another bit
C6_Witness ==
    /\ Len(clones) = 2
    /\ clones[1].info = kInfoFlagClone
    /\ clones[2].info = 16 + kInfoFlagClone
    /\ h.op = "kClone" /\ h.ret = <<clonesSeg, 1>>

(***************************************************************************)
(* Properties of kDisposeClone.                                            *)
(***************************************************************************)
\* the step is a kDisposeClone call on a live object
DisposedLive ==
    /\ h'.op = "kDisposeClone" /\ ~h'.fatal
    /\ isHeapObject(Heap, h'.argv[1])

\* C7: disposeClone(X) on a live object X makes isHeapObject(X) false, for
\* good, exactly when the two low bits of X's info selector are 01;
\* otherwise isHeapObject(X) stays true
C7_DisposeFreesClonePattern ==
    /\ [][ DisposedLive =>
             (isHeapObject(Heap', h'.argv[1])
                 <=> getObject(Heap, h'.argv[1]).info % 4 # 1) ]_vars
    /\ [][ \A i \in 1..Len(clones) : clones[i].freed =>
              (Len(clones') >= i /\ ~isHeapObject(Heap', <<clonesSeg, i - 1>>)) ]_vars

\* C7 witness: disposeClone was called on a clone whose clone bit a script
\* cleared, which is still a heap object, after another clone was freed
C7_Witness ==
    /\ h.op = "kDisposeClone" /\ ~h.fatal
    /\ inCloneTable(Heap, h.argv[1])
    /\ getObject(Heap, h.argv[1]).info % 4 = 0
    /\ isHeapObject(Heap, h.argv[1])
    /\ \E i \in 1..Len(clones) : clones[i].freed

(***************************************************************************)
(* Properties of kScriptID and kDisposeScript.                             *)
(***************************************************************************)
\* C8: scriptId(N) twice in a row without export index returns the same
\* address, and the second call changes no script's lockers
C8_ScriptIdTwice ==
    [][ (h'.op = "kScriptID" /\ h'.chained /\ h'.argc = 1) =>
          /\ h'.ret = h.ret
          /\ \A n \in ScriptNrs : scripts'[n].lockers = scripts[n].lockers ]_vars

\* C8 witness: the second of two scriptId(601) calls returned the address
\* of the first export again, the script holding one locker
C8_Witness ==
    /\ h.op = "kScriptID" /\ h.chained /\ h.argc = 1
    /\ h.ret # NULL_REG
    /\ getSegment(h.ret) = scripts[601].seg
    /\ scripts[601].lockers = 1

\* the scripts that own (the parent of) a clone that is not disposed
OwnersOfLiveClones(hp) ==
    { OwnerOf(hp, <<hp.clonesSeg, i - 1>>) :
          i \in { j \in 1..Len(hp.clones) : ~hp.clones[j].freed } }

\* the step unloads script n
Unloads(n) == scripts[n].seg # 0 /\ ~scripts[n].deleted /\ scripts'[n].deleted

\* C9 as stated: no call unloads a script that owns the parent of a clone
\* that is not disposed
C9_NeverUnloadedWhileCloned ==
    [][ \A n \in ScriptNrs : n \in OwnersOfLiveClones(Heap) => ~Unloads(n) ]_vars

\* C9 as amended: a script that owns the parent of a clone that is not
\* disposed is unloaded only by a disposeScript call that names it, made
\* from outside its segment or when it holds at most one locker
C9_UnloadedOnlyByDisposeScript ==
    [][ \A n \in ScriptNrs :
          (n \in OwnersOfLiveClones(Heap) /\ Unloads(n)) =>
              /\ h'.op = "kDisposeScript"
              /\ toUint16(h'.argv[1]) = n
              /\ (h'.pcSeg # scripts[n].seg \/ scripts[n].lockers <= 1) ]_vars

\* C9 witness: a disposeScript call from outside unloaded a script that
\* held three lockers and owns the parent of a clone that is not disposed
C9_Witness ==
    /\ h.op = "kDisposeScript" /\ h.pcSeg # h.was.seg
    /\ ~h.was.deleted /\ h.was.lockers = 3
    /\ toUint16(h.argv[1]) \in OwnersOfLiveClones(Heap)
    /\ scripts[toUint16(h.argv[1])].deleted

\* the step is a disposeScript(n) call on a loaded script not marked deleted
DisposesLoaded(n) ==
    /\ h'.op = "kDisposeScript" /\ toUint16(h'.argv[1]) = n
    /\ scripts[n].seg # 0 /\ ~scripts[n].deleted

\* C10: disposeScript(N) on a loaded script: from outside N's segment the
\* script is reclaimed whatever its lockers were (as if they had been 1);
\* from inside the lockers go down by one, and the script is reclaimed
\* when none is left
C10_DisposeScriptForcesOutside ==
    [][ \A n \in ScriptNrs : DisposesLoaded(n) =>
          IF h'.pcSeg # scripts[n].seg
          THEN scripts'[n] = [scripts[n] EXCEPT !.lockers = 0, !.deleted = TRUE]
          ELSE /\ scripts'[n].lockers =
                     IF scripts[n].lockers > 0 THEN scripts[n].lockers - 1 ELSE 0
               /\ scripts'[n].deleted = (scripts[n].lockers <= 1)
               /\ scripts'[n].seg = scripts[n].seg ]_vars

\* C10 witness: a disposeScript call from inside the script found three
\* lockers and left two, the script still loaded
C10_Witness ==
    /\ h.op = "kDisposeScript" /\ h.pcSeg = h.was.seg /\ h.was.seg # 0
    /\ ~h.was.deleted /\ h.was.lockers = 3
    /\ scripts[toUint16(h.argv[1])].lockers = 2
    /\ ~scripts[toUint16(h.argv[1])].deleted

(***************************************************************************)
(* Properties of kScriptID on its dispatch table.                          *)
(***************************************************************************)
\* the last call was kScriptID on the number of a script the resources hold
ScriptIdByNumber ==
    /\ h.op = "kScriptID"
    /\ getSegment(h.argv[1]) = 0
    /\ toUint16(h.argv[1]) \in ScriptNrs

PlainId(c) == ResourceId(convertResType(toUint16(c.argv[1])), toUint16(c.argv[2]))

\* the call c is resourceCheck(T, K)
IsPlainCheck(c) == c.op = "kResCheck" /\ c.argc = 2

\* C12, as stated: for every type T and number K, resourceCheck(T, K) right
\* after load(T, K) and lock(T, K, true) returns true, and resourceCheck(T, K)
\* returns true in every state in which the resource holds a lock
C12_CheckTrueAfterLoadAndLock ==
    [][ IsPlainCheck(h') =>
            /\ h'.run = 3 => h'.ret = BoolReg(TRUE)
            /\ (PlainId(h') \in Volume /\ lockers'[PlainId(h')] > 0)
                   => h'.ret = BoolReg(TRUE) ]_vars

\* C12, amended: the same for every type T and number K that name a
\* resource the store holds, T not one of the two types with sub-keys; and
\* a resource that holds a lock stays in the cache
C12_CheckTrueOfHeldResource ==
    /\ [][ (IsPlainCheck(h') /\ PlainId(h') \in Volume
             /\ getType(PlainId(h')) \notin {kResourceTypeAudio36, kResourceTypeSync36})
            => /\ h'.run = 3 => h'.ret = BoolReg(TRUE)
               /\ lockers'[PlainId(h')] > 0 => h'.ret = BoolReg(TRUE) ]_vars
    /\ [](\A r \in Volume : lockers[r] > 0 => r \in cached)

\* resourceCheck has returned true right after load and lock of a view that
\* now holds two locks, while the cache has dropped the other view
C12_Witness ==
    /\ IsPlainCheck(h) /\ h.run = 3
    /\ h.ret = BoolReg(TRUE)
    /\ PlainId(h) \in Volume
    /\ lockers[PlainId(h)] = 2
    /\ PlainId(h) \in cached
    /\ \E r \in Volume : getType(r) = kResourceTypeView /\ r \notin cached

\* the type a call c names in its first argument
TypeOf(c) == convertResType(toUint16(c.argv[1]))

\* C13: kUnLoad returns the accumulator it was entered with and changes
\* neither the cache, nor a lock count, nor the segment heap; for a type
\* other than memory it changes no hunk either, and for memory all it does
\* is to free the hunk entry its second argument names
C13_UnloadOnlyFreesHunk ==
    [][ h'.op = "kUnLoad" =>
            /\ h'.ret = h'.acc
            /\ lockers' = lockers /\ cached' = cached /\ audioLocks' = audioLocks
            /\ hvars' = hvars /\ hunksSeg' = hunksSeg /\ halted' = halted
            /\ IF TypeOf(h') = kResourceTypeMemory
               THEN hunks' = hunks \ { i \in hunks : h'.argv[2] = <<hunksSeg, i>> }
               ELSE hunks' = hunks ]_vars

\* kUnLoad of a view was called with the handle of a hunk that is
\* allocated still, while a resource holds a lock and lies in the cache
C13_Witness ==
    /\ h.op = "kUnLoad"
    /\ TypeOf(h) = kResourceTypeView
    /\ \E i \in hunks : h.argv[2] = <<hunksSeg, i>>
    /\ h.ret = h.acc
    /\ \E r \in Volume : lockers[r] > 0 /\ r \in cached

(***************************************************************************)
(* Properties of the values kDisposeClone and kDisposeScript return.       *)
(***************************************************************************)
\* the last call was kDisposeClone or kDisposeScript and has returned
Disposed == h.op \in {"kDisposeClone", "kDisposeScript"} /\ ~h.fatal

\* C14, as stated: kDisposeClone and kDisposeScript return their second
\* argument when the caller passes one, and the accumulator otherwise
C14_SecondArgumentReturned ==
    Disposed => h.ret = IF h.argc >= 2 THEN h.argv[2] ELSE h.acc

\* C14, amended: kDisposeScript returns its second argument when it is
\* called with exactly two arguments and the accumulator otherwise;
\* kDisposeClone returns the accumulator whatever its arguments
C14_OnlyDisposeScriptPassesThrough ==
    /\ (Disposed /\ h.op = "kDisposeScript")
          => h.ret = IF h.argc = 2 THEN h.argv[2] ELSE h.acc
    /\ (Disposed /\ h.op = "kDisposeClone") => h.ret = h.acc

\* kDisposeClone was called with a second argument on a clone, has freed
\* it and has returned the accumulator, not the argument
C14_Witness ==
    /\ Disposed /\ h.op = "kDisposeClone"
    /\ h.argc = 2
    /\ h.ret = h.acc /\ h.ret # h.argv[2]
    /\ inCloneTable(Heap, h.argv[1])
    /\ getObject(Heap, h.argv[1]).freed

(***************************************************************************)
(* Properties of the calls on addresses that resolve to no object.         *)
(***************************************************************************)
\* the object at an address that resolves is not freed and lies in no
\* script that is marked deleted
LiveObject(hp, addr) ==
    /\ ~getObject(hp, addr).freed
    /\ \A n \in ScriptNrs :
          (hp.scripts[n].seg # 0 /\ hp.scripts[n].seg = getSegment(addr))
              => ~hp.scripts[n].deleted

\* C15: on an address that resolves to no object kClone and kDisposeClone
\* end in error() and leave the clone table, the info selectors and the
\* lockers of the scripts as they were; kIsObject and kRespondsTo return
\* false on it, without error and without a change of state; on an address
\* that resolves kIsObject returns true exactly when the object is live
\* and not freed
C15_NonObjectAddresses ==
    /\ [][ (h'.op \in {"kClone", "kDisposeClone"} /\ ~resolves(Heap, h'.argv[1]))
              => (h'.fatal /\ halted' /\ hvars' = hvars) ]_vars
    /\ [][ h'.op \in {"kIsObject", "kRespondsTo"}
              => /\ ~h'.fatal /\ halted' = halted
                 /\ hvars' = hvars /\ rvars' = rvars
                 /\ ~resolves(Heap, h'.argv[1]) => h'.ret = BoolReg(FALSE) ]_vars
    /\ [][ (h'.op = "kIsObject" /\ resolves(Heap, h'.argv[1]))
              => (h'.ret = BoolReg(TRUE) <=> LiveObject(Heap, h'.argv[1])) ]_vars

\* kClone of the null address has ended in error() while the clone table
\* holds a clone and its script holds the lockers of that clone
C15_Witness ==
    /\ h.op = "kClone" /\ h.fatal /\ halted
    /\ h.argv[1] = NULL_REG
    /\ Len(clones) > 0
    /\ \E n \in ScriptNrs : scripts[n].lockers > 1

(***************************************************************************)
(* Properties of kLock with the number 0xFFFF.                             *)
(***************************************************************************)
\* the call c is lock(T, 0xFFFF, false)
IsUnlockAll(c) == IsUnlockCall(c) /\ toUint16(c.argv[2]) = 65535

\* one unlock of the resource r
OneUnlock(r) == lockers'[r] = IF lockers[r] > 0 THEN lockers[r] - 1 ELSE 0

\* C16: before SCI2 lock(T, 0xFFFF, false) unlocks once every resource of
\* the type T that holds a lock and leaves every other lock count as it
\* was; from SCI2 on it unlocks the one resource of number 0xFFFF; and
\* lock(T, K, false) on a resource the volume lacks changes no state
C16_UnlockAllOnLegacyOnly ==
    /\ [][ (IsUnlockAll(h') /\ cfg.version < SCI_VERSION_2)
              => \A r \in Volume :
                    IF getType(r) = kLockType(cfg, h'.argv[1], h'.argv[2])
                    THEN OneUnlock(r) ELSE lockers'[r] = lockers[r] ]_vars
    /\ [][ (IsUnlockAll(h') /\ cfg.version >= SCI_VERSION_2)
              => \A r \in Volume :
                    IF r = kLockId(cfg, h'.argv[1], h'.argv[2])
                    THEN OneUnlock(r) ELSE lockers'[r] = lockers[r] ]_vars
    /\ [][ (IsUnlockCall(h') /\ ~IsSweepCall(h')
             /\ kLockId(cfg, h'.argv[1], h'.argv[2]) \notin Volume)
              => (rvars' = rvars /\ hvars' = hvars /\ ~h'.fatal
                  /\ halted' = halted) ]_vars

\* lock(view, 0xFFFF, false) on a legacy version has taken one lock from
\* each of the two views, and none from the digital sample
C16_Witness ==
    /\ IsUnlockAll(h) /\ cfg.version < SCI_VERSION_2
    /\ \A r \in listResources(kResourceTypeView) :
           h.pre[r] = 2 /\ lockers[r] = 1
    /\ \E r \in listResources(kResourceTypeAudio) :
           h.pre[r] = 1 /\ lockers[r] = 1

(***************************************************************************)
(* Properties of kResCheck.                                                *)
(***************************************************************************)
\* the call c names one of the two types with sub-keys
IsSubkeyed(c) == TypeOf(c) \in {kResourceTypeAudio36, kResourceTypeSync36}

\* the resource of the volume a call c with six arguments names: type,
\* number and the low 8 bits of each sub-key
MaskedId(c) ==
    ResourceId36(TypeOf(c), toUint16(c.argv[2]),
                 BitAnd(toUint16(c.argv[3]), 255), BitAnd(toUint16(c.argv[4]), 255),
                 BitAnd(toUint16(c.argv[5]), 255), BitAnd(toUint16(c.argv[6]), 255))

\* C17: kResCheck loads no resource and changes no lock count; for the two
\* types with sub-keys it returns false without error when it gets fewer
\* than six arguments, and with six it tells whether the store holds the
\* resource of the number and the low 8 bits of each sub-key
C17_CheckIsPure ==
    [][ h'.op = "kResCheck" =>
            /\ rvars' = rvars /\ hvars' = hvars
            /\ ~h'.fatal /\ halted' = halted
            /\ (IsSubkeyed(h') /\ h'.argc < 6) => h'.ret = BoolReg(FALSE)
            /\ (IsSubkeyed(h') /\ h'.argc >= 6)
                   => h'.ret = BoolReg(MaskedId(h') \in Volume) ]_vars

\* kResCheck with six arguments has found the audio36 resource under a
\* noun that matches in its low 8 bits only, while the resource lies in no
\* cache and holds no lock
C17_Witness ==
    /\ h.op = "kResCheck" /\ IsSubkeyed(h) /\ h.argc = 6
    /\ toUint16(h.argv[3]) > 255
    /\ h.ret = BoolReg(TRUE)
    /\ MaskedId(h) \notin cached
    /\ lockers[MaskedId(h)] = 0
    /\ \E r \in Volume : lockers[r] > 0

(***************************************************************************)
(* Properties of kLoad.                                                    *)
(***************************************************************************)
\* the call c is load(T, K) of a type other than memory
IsPlainLoad(c) == c.op = "kLoad" /\ TypeOf(c) # kResourceTypeMemory

\* the type and the number a call c names
PairOf(c) == <<TypeOf(c), toUint16(c.argv[2])>>

\* the 16 bits of (type * 2^11) OR number: the low 11 bits of the number
\* under the low 5 bits of the type joined with the high 5 bits of the
\* number
HandleOf(c) ==
    <<0, (BitOr(TypeOf(c) % 32, PairOf(c)[2] \div 2048) * 2048)
            + (PairOf(c)[2] % 2048)>>

\* kLoad of a type other than memory changes neither the cache nor a lock
\* count and returns (type * 2^11) OR number, cut to 16 bits
LoadIsPure ==
    IsPlainLoad(h') =>
        /\ rvars' = rvars /\ hvars' = hvars /\ ~h'.fatal /\ halted' = halted
        /\ h'.ret = HandleOf(h')

\* C18, as stated: kLoad of a type other than memory changes neither the
\* cache nor a lock count and returns (type * 2^11) OR number cut to 16
\* bits, and two loads of different pairs of type and number, the number
\* any 16-bit value, return different handles
C18_HandlesAllDiffer ==
    [][ /\ LoadIsPure
        /\ (IsPlainLoad(h) /\ IsPlainLoad(h') /\ PairOf(h) # PairOf(h'))
              => h.ret # h'.ret ]_vars

\* C18, amended: the same, the handles of two loads of different pairs
\* being different when both numbers are below 2^11 and both types below
\* 2^5
C18_HandlesDifferInRange ==
    [][ /\ LoadIsPure
        /\ (IsPlainLoad(h) /\ IsPlainLoad(h') /\ PairOf(h) # PairOf(h')
             /\ PairOf(h)[1] < 32 /\ PairOf(h')[1] < 32
             /\ PairOf(h)[2] < 2048 /\ PairOf(h')[2] < 2048)
              => h.ret # h'.ret ]_vars

\* kLoad of the audio36 resource of number 1 has returned 18 * 2^11 + 1
\* while a resource lies in the cache and holds a lock
C18_Witness ==
    /\ IsPlainLoad(h)
    /\ PairOf(h) = <<kResourceTypeAudio36, 1>>
    /\ h.ret = <<0, 36865>>
    /\ \E r \in Volume : lockers[r] > 0 /\ r \in cached

(***************************************************************************)
(* Properties of kScriptID on an address.                                  *)
(***************************************************************************)
\* C19: kScriptID on a first argument that has a segment returns this
\* argument and changes no state: no script is loaded, no lockers change
\* and no error is raised, with or without an export index
C19_ResolvedAddressReturned ==
    [][ (h'.op = "kScriptID" /\ getSegment(h'.argv[1]) # 0)
            => /\ h'.ret = h'.argv[1]
               /\ ~h'.fatal /\ halted' = halted
               /\ hvars' = hvars /\ rvars' = rvars ]_vars

\* kScriptID was called on an address with an export index that no script
\* has and has returned the address, while one script is loaded and the
\* other is not
C19_Witness ==
    /\ h.op = "kScriptID" /\ getSegment(h.argv[1]) # 0
    /\ h.argc = 2
    /\ \A n \in ScriptNrs : toUint16(h.argv[2]) >= Len(Exports(n))
    /\ h.ret = h.argv[1] /\ ~h.fatal
    /\ scripts[601].seg # 0 /\ scripts[1].seg = 0

(***************************************************************************)
(* Properties of the lockers under kClone and kDisposeClone.               *)
(***************************************************************************)
\* C20: kDisposeClone changes the lockers of no script, so that no step of
\* kClone or kDisposeClone takes a locker from a script, and kDisposeClone
\* on a clone that is freed already changes no state
C20_DisposeCloneKeepsLockers ==
    /\ [][ h'.op = "kDisposeClone"
              => \A n \in ScriptNrs : scripts'[n] = scripts[n] ]_vars
    /\ [][ h'.op \in {"kClone", "kDisposeClone"}
              => \A n \in ScriptNrs : scripts'[n].lockers >= scripts[n].lockers ]_vars
    /\ [][ (h'.op = "kDisposeClone" /\ inCloneTable(Heap, h'.argv[1])
             /\ getObject(Heap, h'.argv[1]).freed)
              => (hvars' = hvars /\ rvars' = rvars /\ halted' = halted
                  /\ ~h'.fatal) ]_vars

\* kDisposeClone has returned, every clone of the table is freed, and a
\* script holds the locker of its load and the two of a clone still
C20_Witness ==
    /\ h.op = "kDisposeClone" /\ ~h.fatal
    /\ Len(clones) > 0
    /\ \A i \in 1..Len(clones) : clones[i].freed
    /\ \E n \in ScriptNrs : scripts[n].lockers >= 3

====
